---- MODULE Spec2Model ----
(***************************************************************************)
(* Soccer AI API (src/main.py, src/models.py): registration, login, JWT    *)
(* authentication, the profile store, the chat log and the coach handler,  *)
(* as a state machine over the three tables and the requests in flight.    *)
(*                                                                         *)
(* Rendering of Python values:                                             *)
(*   Optional[T]   None is <<>>, a value v is <<v>>                        *)
(*   float         a whole number of tenths (705 is 70.5)                  *)
(*   a table       the sequence of its rows in insertion order             *)
(*   a JWT         [sub, exp, key]: key names the key that signed it       *)
(***************************************************************************)
EXTENDS Integers, Sequences, FiniteSets, TLC

VARIABLES
    users,      \* table "users"          (models.User)
    profiles,   \* table "profiles"       (models.Profile)
    chats,      \* table "chat_histories" (models.ChatHistory)
    req,        \* the requests in flight, one record per worker slot
    last,       \* the response the service produced last
    issued,     \* the tokens login has handed out, with their issue time
    now         \* the clock (datetime.utcnow), in minutes

vars == <<users, profiles, chats, req, last, issued, now>>
store == <<users, profiles, chats>>

\* ---------------------------------------------------------------- bounds
MaxInFlight == 2      \* requests the service works on at once
MaxTicks == 2         \* clock steps
MaxTokens == 2        \* logins that hand out a token
MaxRowId == 4         \* primary keys a table hands out

Slots == 1..MaxInFlight
Usernames == {"alice", "bob"}
Passwords == {"pw1", "pw2"}
Queries == {"q1", "q2"}
Answers == {"a1"}

\* ------------------------------------------------------------- constants
ACCESS_TOKEN_EXPIRE_MINUTES == 60
TickMinutes == ACCESS_TOKEN_EXPIRE_MINUTES

None == <<>>
Some(v) == <<v>>

\* UserProfile: the eight optional fields of the request body.
UserProfile(name, age, weight, height, strengths, weaknesses, expertise, time) ==
    [name |-> name, age |-> age, weight |-> weight, height |-> height,
     strengths |-> strengths, weaknesses |-> weaknesses,
     expertise |-> expertise, time |-> time]

\* Request bodies the clients send: every field set (weight 70.5 kg), and
\* only the name set (the other seven omitted, so None).
PFull == UserProfile(Some("Alice"), Some(20), Some(705), Some(1800),
                     Some("pace"), Some("left foot"), Some("Beginner"), Some(60))
PName == UserProfile(Some("Al"), None, None, None, None, None, None, None)
ProfileInputs == {PFull, PName}

\* ------------------------------------------------------------ the tables
RECURSIVE MaxId(_)
MaxId(table) ==
    IF table = <<>> THEN 0
    ELSE LET m == MaxId(Tail(table)) IN
         IF Head(table).id > m THEN Head(table).id ELSE m

\* id = Column(Integer, primary_key=True): the next key of the table.
NextId(table) == MaxId(table) + 1

\* db.query(models.User).filter(models.User.username == u).first()
UserRows(u) == SelectSeq(users, LAMBDA row : row.username = u)
FirstUser(u) == IF UserRows(u) = <<>> THEN None ELSE Some(Head(UserRows(u)))

\* user.profile: relationship(uselist=False), the first row of the user.
ProfileRows(uid) == SelectSeq(profiles, LAMBDA row : row.user_id = uid)
ProfileOf(uid) == IF ProfileRows(uid) = <<>> THEN None ELSE Some(Head(ProfileRows(uid)))

\* user.chats: relationship("ChatHistory"), the rows of the user.
ChatsOf(uid) == SelectSeq(chats, LAMBDA row : row.user_id = uid)

\* Turns, with the rows taken last to first.
RECURSIVE TurnsReversed(_)
TurnsReversed(rows) ==
    IF rows = <<>> THEN <<>>
    ELSE TurnsReversed(Tail(rows))
         \o <<[role |-> Head(rows).role, content |-> Head(rows).content]>>

\* [{"role": c.role, "content": c.content} for c in user.chats]
RECURSIVE Turns(_)
Turns(rows) ==
    IF rows = <<>> THEN <<>>
    ELSE <<[role |-> Head(rows).role, content |-> Head(rows).content]>>
         \o Turns(Tail(rows))

\* models.Profile(**profile.dict(), owner=user): the row of the table.
ProfileRow(id, uid, p) ==
    [id |-> id, user_id |-> uid, name |-> p.name, age |-> p.age, weight |-> p.weight,
     height |-> p.height, strengths |-> p.strengths, weaknesses |-> p.weaknesses,
     expertise |-> p.expertise, time |-> p.time]

\* get_profile's response body, from the row.
ProfileBody(row) ==
    UserProfile(row.name, row.age, row.weight, row.height, row.strengths,
                row.weaknesses, row.expertise, row.time)
EmptyBody == [empty |-> TRUE]
NoBody == [none |-> TRUE]

\* ------------------------------------------------------------- security
\* pwd_context.hash / pwd_context.verify (bcrypt): a one-way digest.
get_password_hash(password) == [scheme |-> "bcrypt", digest |-> password]
verify_password(plain_password, hashed_password) ==
    hashed_password = get_password_hash(plain_password)

\* jwt.encode(to_encode, PRIVATE_KEY, algorithm=ALGORITHM) with exp added.
create_access_token(sub, t) ==
    [sub |-> sub, exp |-> t + ACCESS_TOKEN_EXPIRE_MINUTES, key |-> "PRIVATE_KEY"]

\* What a client can put in the Authorization header: nothing, a token it
\* signed with a key of its own, or a token login handed out.
NoToken == [sub |-> "-", exp |-> 0, key |-> "none"]
Forged(u) ==
    [sub |-> u, exp |-> now + ACCESS_TOKEN_EXPIRE_MINUTES, key |-> "OTHER_KEY"]
ClientTokens == {NoToken} \cup {Forged(u) : u \in Usernames} \cup {i.tok : i \in issued}

\* jwt.decode(token, PUBLIC_KEY, algorithms=[ALGORITHM]): the signature
\* verifies under PUBLIC_KEY, and exp is not behind the clock.
AnyKeyVerifies(token) == token.key # "none"
SignatureVerifies(token) == token.key = "PRIVATE_KEY"
NeverExpired(token, t) == FALSE
Expired(token, t) == token.exp < t
jwt_decode_ok(token, t) == SignatureVerifies(token) /\ ~Expired(token, t)

\* oauth2_scheme, then get_current_user: Some(username), or None for 401.
get_current_user(token, t) ==
    IF token.key = "none" THEN None
    ELSE IF ~jwt_decode_ok(token, t) THEN None
    ELSE IF token.sub = "-" THEN None
    ELSE Some(token.sub)

\* --------------------------------------------------- requests, responses
Idle == [pc |-> "idle", route |-> "-", cur |-> "-", uid |-> 0, body |-> NoBody,
         target |-> 0, messages |-> <<>>]
\* A handler run in the threadpool has returned (or raised); its response
\* waits for the event loop.
Responding ==
    [pc |-> "respond", route |-> "-", cur |-> "-", uid |-> 0, body |-> NoBody,
     target |-> 0, messages |-> <<>>]
Response(route, status, cur, body) ==
    [route |-> route, status |-> status, cur |-> cur, body |-> body]

\* soccer_coach is "async def" and calls the blocking client: the event
\* loop is held from the call until it returns.
LoopFree == \A s \in Slots : req[s].pc # "awaiting"
\* The event loop takes a new request / writes a finished handler's response.
CanStart(r) == req[r].pc = "idle" /\ LoopFree
CanSend(r) == req[r].pc = "respond" /\ LoopFree

Init ==
    /\ users = <<>>
    /\ profiles = <<>>
    /\ chats = <<>>
    /\ req = [r \in Slots |-> Idle]
    /\ last = Response("-", 0, "-", NoBody)
    /\ issued = {}
    /\ now = 0

\* ------------------------------------------------------------- /register
\* register, up to the query: 400 when the username is found.
Register(r, u, pw) ==
    /\ CanStart(r)
    /\ IF FirstUser(u) # None
       THEN /\ req' = [req EXCEPT ![r] = Responding]
            /\ last' = Response("register", 400, u, NoBody)
       ELSE /\ NextId(users) <= MaxRowId
            /\ req' = [req EXCEPT ![r] =
                         [pc |-> "insert_user", route |-> "register", cur |-> u,
                          uid |-> 0, body |-> [password |-> pw], target |-> 0, messages |-> <<>>]]
            /\ UNCHANGED last
    /\ UNCHANGED <<store, issued, now>>

\* username = Column(String, unique=True): the INSERT the index admits.
UniqueUsername(u) == UserRows(u) = <<>>

\* db.add(new_user); db.commit(): IntegrityError (unhandled, 500) when the
\* unique index refuses the row.
RegisterCommit(r) ==
    /\ req[r].pc = "insert_user"
    /\ IF UniqueUsername(req[r].cur)
       THEN /\ users' = Append(users,
                   [id |-> NextId(users), username |-> req[r].cur,
                    hashed_password |-> get_password_hash(req[r].body.password)])
            /\ last' = Response("register", 200, req[r].cur, NoBody)
       ELSE /\ UNCHANGED users
            /\ last' = Response("register", 500, req[r].cur, NoBody)
    /\ req' = [req EXCEPT ![r] = Responding]
    /\ UNCHANGED <<profiles, chats, issued, now>>

\* The event loop writes the response of a handler run in the threadpool.
Send(r) ==
    /\ CanSend(r)
    /\ req' = [req EXCEPT ![r] = Idle]
    /\ UNCHANGED <<store, last, issued, now>>

\* ---------------------------------------------------------------- /token
login_ok(u, pw) ==
    /\ FirstUser(u) # None
    /\ verify_password(pw, FirstUser(u)[1].hashed_password)

Login(r, u, pw) ==
    /\ CanStart(r)
    /\ IF login_ok(u, pw)
       THEN LET token == create_access_token(FirstUser(u)[1].username, now)
                grant == [tok |-> token, iat |-> now, user |-> u] IN
            /\ Cardinality(issued \cup {grant}) <= MaxTokens
            /\ issued' = issued \cup {grant}
            /\ last' = Response("login", 200, u, [access_token |-> token, token_type |-> "bearer"])
       ELSE /\ UNCHANGED issued
            /\ last' = Response("login", 400, u, NoBody)
    /\ req' = [req EXCEPT ![r] = Responding]
    /\ UNCHANGED <<store, now>>

\* ----------------------------------------------------- /v1/user/profile
\* The 401 of a failed dependency: the handler does not run.
Unauthorized(route) ==
    /\ last' = Response(route, 401, "-", NoBody)
    /\ UNCHANGED <<store, req, issued, now>>

\* create_or_update_profile, up to the reads: the user, then user.profile.
\* target is the row to update, or 0 to insert one.
PostProfile(r, token, p) ==
    /\ CanStart(r)
    /\ LET cur == get_current_user(token, now) IN
       IF cur = None THEN Unauthorized("create_or_update_profile")
       ELSE LET user == FirstUser(cur[1]) IN
            /\ IF user = None
               THEN /\ req' = [req EXCEPT ![r] =
                                 Responding]
                    /\ last' = Response("create_or_update_profile", 404, cur[1], NoBody)
               ELSE /\ NextId(profiles) <= MaxRowId
                    /\ req' = [req EXCEPT ![r] =
                         [pc |-> "write_profile", route |-> "create_or_update_profile",
                          cur |-> cur[1], uid |-> user[1].id, body |-> p,
                          target |-> IF ProfileOf(user[1].id) = None THEN 0
                                     ELSE ProfileOf(user[1].id)[1].id,
                          messages |-> <<>>]]
                    /\ UNCHANGED last
            /\ UNCHANGED <<store, issued, now>>

\* for key, value in profile.dict().items(): setattr(user.profile, key, value)
UpdateProfile(table, id, p) ==
    [i \in 1..Len(table) |->
        IF table[i].id = id THEN ProfileRow(id, table[i].user_id, p)
        ELSE table[i]]

\* db.add(models.Profile(**profile.dict(), owner=user))
InsertProfile(table, uid, p) ==
    Append(table, ProfileRow(NextId(table), uid, p))

\* create_or_update_profile from the write to db.commit(): the response
\* echoes profile.dict().
ProfileCommit(r) ==
    /\ req[r].pc = "write_profile"
    /\ profiles' = IF req[r].target = 0
                   THEN InsertProfile(profiles, req[r].uid, req[r].body)
                   ELSE UpdateProfile(profiles, req[r].target, req[r].body)
    /\ last' = Response("create_or_update_profile", 200, req[r].cur, req[r].body)
    /\ req' = [req EXCEPT ![r] = Responding]
    /\ UNCHANGED <<users, chats, issued, now>>

\* get_profile: {} when the user or the profile is missing.
get_profile_body(u) ==
    IF FirstUser(u) = None \/ ProfileOf(FirstUser(u)[1].id) = None THEN EmptyBody
    ELSE ProfileBody(ProfileOf(FirstUser(u)[1].id)[1])

GetProfile(r, token) ==
    /\ CanStart(r)
    /\ LET cur == get_current_user(token, now) IN
       IF cur = None THEN Unauthorized("get_profile")
       ELSE /\ req' = [req EXCEPT ![r] = Responding]
            /\ last' = Response("get_profile", 200, cur[1], get_profile_body(cur[1]))
            /\ UNCHANGED <<store, issued, now>>

\* ------------------------------------------------------------ /v1/coach
LinksContent == "Links file not found."
Persona == "You are an AI Coach specializing in football, fitness, and health."

TruthyStr(x) == x # None /\ x[1] # ""
TruthyNum(x) == x # None /\ x[1] # 0

\* profile_parts: one "Label: value" line per field that is set.
Part(cond, label, x) == IF cond THEN <<<<label, x[1]>>>> ELSE <<>>
profile_context(uid) ==
    IF ProfileOf(uid) = None THEN <<"No profile provided.">>
    ELSE LET profile == ProfileOf(uid)[1] IN
         Part(TruthyStr(profile.name), "Name", profile.name)
         \o Part(TruthyNum(profile.age), "Age", profile.age)
         \o Part(TruthyNum(profile.weight), "Weight (kg)", profile.weight)
         \o Part(TruthyNum(profile.height), "Height (cm)", profile.height)
         \o Part(TruthyStr(profile.strengths), "Strengths", profile.strengths)
         \o Part(TruthyStr(profile.weaknesses), "Weaknesses", profile.weaknesses)
         \o Part(TruthyStr(profile.expertise), "Expertise (in months)", profile.expertise)
         \o Part(TruthyNum(profile.time), "Free time per day (minutes)", profile.time)

system_prompt(uid) ==
    [role |-> "system", content |-> <<Persona, profile_context(uid), LinksContent>>]

\* history = [...user.chats...]; history.append({"role": "user", ...})
History(uid) == Turns(ChatsOf(uid))
CoachHistory(uid, query) == Append(History(uid), [role |-> "user", content |-> query])

\* messages = [{"role": "system", ...}] + history
CoachMessages(uid, query) == <<system_prompt(uid)>> \o CoachHistory(uid, query)

\* NotFound, answering an empty 200 instead.
NotFoundAsEmpty(route, u) ==
    /\ last' = Response(route, 200, u, EmptyBody)
    /\ UNCHANGED <<store, req, issued, now>>

\* The 404 of an "async def" handler: raised and answered on the event loop.
NotFound(route, u) ==
    /\ last' = Response(route, 404, u, NoBody)
    /\ UNCHANGED <<store, req, issued, now>>

\* soccer_coach up to client.chat.completions.create(...): the request then
\* waits for the provider, on the event loop.
CoachBegin(r, token, query) ==
    /\ CanStart(r)
    /\ LET cur == get_current_user(token, now) IN
       IF cur = None THEN Unauthorized("soccer_coach")
       ELSE IF FirstUser(cur[1]) = None THEN NotFound("soccer_coach", cur[1])
       ELSE LET user == FirstUser(cur[1])[1] IN
            /\ NextId(chats) + 1 <= MaxRowId
            /\ req' = [req EXCEPT ![r] =
                         [pc |-> "awaiting", route |-> "soccer_coach", cur |-> cur[1],
                          uid |-> user.id, body |-> [query |-> query], target |-> 0,
                          messages |-> CoachMessages(user.id, query)]]
            /\ UNCHANGED <<store, last, issued, now>>

ChatRow(id, uid, role, content) ==
    [id |-> id, user_id |-> uid, role |-> role, content |-> content]

\* SaveConversation, with the reply saved before the query.
SaveConversationSwapped(table, uid, query, answer) ==
    LET one == Append(table, ChatRow(NextId(table), uid, "assistant", answer)) IN
    Append(one, ChatRow(NextId(one), uid, "user", query))

\* db.add(ChatHistory(role="user", ...)); db.add(ChatHistory(role="assistant", ...))
SaveConversation(table, uid, query, answer) ==
    LET one == Append(table, ChatRow(NextId(table), uid, "user", query)) IN
    Append(one, ChatRow(NextId(one), uid, "assistant", answer))

\* The provider answers: the exchange is saved and the answer returned.
CoachReturn(r, answer) ==
    /\ req[r].pc = "awaiting"
    /\ chats' = SaveConversation(chats, req[r].uid, req[r].body.query, answer)
    /\ last' = Response("soccer_coach", 200, req[r].cur, [answer |-> answer])
    /\ req' = [req EXCEPT ![r] = Idle]
    /\ UNCHANGED <<users, profiles, issued, now>>

\* The provider call raises: the exception leaves the handler (500).
CoachFail(r) ==
    /\ req[r].pc = "awaiting"
    /\ last' = Response("soccer_coach", 500, req[r].cur, NoBody)
    /\ req' = [req EXCEPT ![r] = Idle]
    /\ UNCHANGED <<store, issued, now>>

\* ------------------------------------------------------ /v1/chat/history
GetChatHistory(token) ==
    /\ LoopFree
    /\ LET cur == get_current_user(token, now) IN
       IF cur = None THEN Unauthorized("get_chat_history")
       ELSE IF FirstUser(cur[1]) = None THEN NotFound("get_chat_history", cur[1])
       ELSE /\ last' = Response("get_chat_history", 200, cur[1],
                                [turns |-> History(FirstUser(cur[1])[1].id)])
            /\ UNCHANGED <<store, req, issued, now>>

\* DeleteChats, with the filter on user_id left out.
DeleteAllChats(table, uid) == <<>>

\* db.query(ChatHistory).filter(ChatHistory.user_id == user.id).delete()
DeleteChats(table, uid) == SelectSeq(table, LAMBDA row : row.user_id # uid)

ClearChatHistory(token) ==
    /\ LoopFree
    /\ LET cur == get_current_user(token, now) IN
       IF cur = None THEN Unauthorized("clear_chat_history")
       ELSE IF FirstUser(cur[1]) = None THEN NotFound("clear_chat_history", cur[1])
       ELSE /\ chats' = DeleteChats(chats, FirstUser(cur[1])[1].id)
            /\ last' = Response("clear_chat_history", 200, cur[1], NoBody)
            /\ UNCHANGED <<users, profiles, req, issued, now>>

\* ------------------------------------------------------- the environment
\* datetime.utcnow() moves on.
Tick ==
    /\ now < MaxTicks * TickMinutes
    /\ now' = now + TickMinutes
    /\ UNCHANGED <<store, req, last, issued>>

\* An administrator removes a user, with the rows it owns, from the store
\* (no route does); not while a handler holds that user's row.
AdminDeleteUser(u) ==
    /\ FirstUser(u) # None
    /\ \A s \in Slots : req[s].pc \in {"idle", "respond"} \/ req[s].cur # u
    /\ LET uid == FirstUser(u)[1].id IN
       /\ users' = SelectSeq(users, LAMBDA row : row.id # uid)
       /\ profiles' = SelectSeq(profiles, LAMBDA row : row.user_id # uid)
       /\ chats' = SelectSeq(chats, LAMBDA row : row.user_id # uid)
    /\ UNCHANGED <<req, last, issued, now>>

\* -------------------------------------------------------- specification
\* A new request is taken up in the first slot that is free.
FreeSlot ==
    LET free == {r \in Slots : req[r].pc = "idle"} IN
    {r \in free : \A s \in free : r <= s}

\* The routes of the service, each with the inputs the clients draw from.
Registration(U, PW) ==
    \/ \E r \in FreeSlot, u \in U, pw \in PW : Register(r, u, pw)
    \/ \E r \in Slots : RegisterCommit(r)
    \/ \E r \in Slots : Send(r)

Sessions(U, PW) ==
    \E r \in FreeSlot, u \in U, pw \in PW : Login(r, u, pw)

ProfileRoutes(P) ==
    \/ \E r \in FreeSlot, t \in ClientTokens, p \in P : PostProfile(r, t, p)
    \/ \E r \in Slots : ProfileCommit(r)
    \/ \E r \in FreeSlot, t \in ClientTokens : GetProfile(r, t)

ChatRoutes(Q) ==
    \/ \E r \in FreeSlot, t \in ClientTokens, q \in Q : CoachBegin(r, t, q)
    \/ \E r \in Slots, a \in Answers : CoachReturn(r, a)
    \/ \E r \in Slots : CoachFail(r)
    \/ \E t \in ClientTokens : GetChatHistory(t)
    \/ \E t \in ClientTokens : ClearChatHistory(t)

\* Registration and login alone, with both passwords.
NextAccounts ==
    \/ Registration(Usernames, Passwords)
    \/ Sessions(Usernames, Passwords)

\* One user, every route and the clock; one body per route.
NextAuth ==
    \/ Registration({"alice"}, {"pw1"})
    \/ Sessions({"alice"}, {"pw1"})
    \/ ProfileRoutes({PName})
    \/ ChatRoutes({"q1"})
    \/ Tick

\* One user, every route and the administrator; one body per route.
NextOrphan ==
    \/ Registration({"alice"}, {"pw1"})
    \/ Sessions({"alice"}, {"pw1"})
    \/ ProfileRoutes({PName})
    \/ ChatRoutes({"q1"})
    \/ AdminDeleteUser("alice")

\* Two users, their tokens and the clock, on the routes that only read.
NextTokens ==
    \/ Registration(Usernames, {"pw1"})
    \/ Sessions(Usernames, Passwords)
    \/ \E r \in FreeSlot, t \in ClientTokens : GetProfile(r, t)
    \/ \E t \in ClientTokens : GetChatHistory(t)
    \/ Tick

\* One user writing and reading the profile.
NextProfile ==
    \/ Registration({"alice"}, {"pw1"})
    \/ Sessions({"alice"}, {"pw1"})
    \/ ProfileRoutes(ProfileInputs)

\* Two users and the chat log.
NextChat ==
    \/ Registration(Usernames, {"pw1"})
    \/ Sessions(Usernames, {"pw1"})
    \/ ChatRoutes(Queries)

\* Two users, logged in, on the routes that write a profile or the chat log.
LoginTokens == {i.tok : i \in issued}
NextClear ==
    \/ Registration(Usernames, {"pw1"})
    \/ Sessions(Usernames, {"pw1"})
    \/ \E r \in FreeSlot, t \in LoginTokens : PostProfile(r, t, PName)
    \/ \E r \in Slots : ProfileCommit(r)
    \/ \E r \in FreeSlot, t \in LoginTokens : CoachBegin(r, t, "q1")
    \/ \E r \in Slots, a \in Answers : CoachReturn(r, a)
    \/ \E t \in LoginTokens : ClearChatHistory(t)

Spec == Init /\ [][NextAuth]_vars
SpecOrphan == Init /\ [][NextOrphan]_vars
SpecClear == Init /\ [][NextClear]_vars
SpecTokens == Init /\ [][NextTokens]_vars
SpecAccounts == Init /\ [][NextAccounts]_vars
SpecProfile == Init /\ [][NextProfile]_vars
SpecChat == Init /\ [][NextChat]_vars

\* ================================================================ claims
\* What the claims speak of, stated on the tables and the tokens alone.
ProtectedRoutes ==
    {"create_or_update_profile", "get_profile", "soccer_coach",
     "get_chat_history", "clear_chat_history"}

\* The token came from login and the clock has not passed its exp.
HandedOut(t) == \E i \in issued : i.tok = t
BadToken(t) == ~HandedOut(t) \/ now > t.exp
HasUser(u) == \E i \in 1..Len(users) : users[i].username = u
IdOf(u) == (CHOOSE i \in 1..Len(users) : users[i].username = u)

\* The rows of a user, by growing primary key: the order they were saved in.
RowsOwned(table, uid) == {table[i] : i \in {j \in 1..Len(table) : table[j].user_id = uid}}
RECURSIVE ByKey(_)
ByKey(rows) ==
    IF rows = {} THEN <<>>
    ELSE LET first == CHOOSE x \in rows : \A y \in rows : x.id <= y.id IN
         <<[role |-> first.role, content |-> first.content]>> \o ByKey(rows \ {first})
SavedTurns(table, uid) == ByKey(RowsOwned(table, uid))

\* A step of a protected route, for the request in slot r carrying token t.
ProfileWriteStep(r, t) == \E p \in ProfileInputs : PostProfile(r, t, p)
CoachStep(r, t) == \E q \in Queries : CoachBegin(r, t, q)
SlotStep(r, t) == ProfileWriteStep(r, t) \/ GetProfile(r, t) \/ CoachStep(r, t)
LoopStep(t) == GetChatHistory(t) \/ ClearChatHistory(t)
ProtectedStep(r, t) == SlotStep(r, t) \/ LoopStep(t)

\* C1: a coach request leaves the chat log alone until the provider answers;
\* when it answers, the log of the user grows by exactly the query and then
\* the reply, and is the history the request loaded plus those two; when the
\* call fails, the log is left as it was (500).
C1_CoachSavesExchange ==
    [][\A r \in Slots :
        /\ \A t \in ClientTokens : CoachStep(r, t) => chats' = chats
        /\ \A a \in Answers : CoachReturn(r, a) =>
              LET n == Len(chats) IN
              /\ Len(chats') = n + 2
              /\ SubSeq(chats', 1, n) = chats
              /\ chats'[n + 1].user_id = req[r].uid
              /\ chats'[n + 1].role = "user"
              /\ chats'[n + 1].content = req[r].body.query
              /\ chats'[n + 2].user_id = req[r].uid
              /\ chats'[n + 2].role = "assistant"
              /\ chats'[n + 2].content = a
              /\ chats'[n + 1].id < chats'[n + 2].id
              /\ SavedTurns(chats', req[r].uid) =
                    Tail(req[r].messages) \o <<[role |-> "assistant", content |-> a]>>
              /\ last'.status = 200 /\ last'.body = [answer |-> a]
        /\ CoachFail(r) =>
              /\ chats' = chats
              /\ Tail(req[r].messages) = SavedTurns(chats, req[r].uid)
                    \o <<[role |-> "user", content |-> req[r].body.query]>>
              /\ last'.status = 500
      ]_vars

\* C1 witness: a second exchange has been saved and answered.
C1_Witness ==
    /\ last.route = "soccer_coach" /\ last.status = 200
    /\ Len(chats) = 4

\* C2 (as claimed): a username has at most one row, and a /register that
\* does not create the user is answered 400.
C2_SecondRegisterConflicts ==
    /\ \A i, j \in 1..Len(users) : users[i].username = users[j].username => i = j
    /\ last.route = "register" => last.status \in {200, 400}

\* C3 (as claimed): each user owns at most one row of profiles.
C3_AtMostOneProfile ==
    \A i, j \in 1..Len(profiles) : profiles[i].user_id = profiles[j].user_id => i = j

\* C4 (as claimed): once a profile write of P is answered, reading the
\* profile of that user returns exactly P.
C4_ProfileRoundTrip ==
    (last.route = "create_or_update_profile" /\ last.status = 200)
        => get_profile_body(last.cur) = last.body

C6_BadTokenRejected ==
    [][\A t \in ClientTokens :
         (BadToken(t) /\ (LoopStep(t) \/ \E r \in Slots : SlotStep(r, t))) =>
            /\ last'.status = 401
            /\ last'.route \in ProtectedRoutes
            /\ UNCHANGED <<users, profiles, chats>>
            /\ UNCHANGED req
      ]_vars

\* C6 witness: a clear was refused while the user had messages stored.
C6_Witness ==
    /\ last.route = "clear_chat_history" /\ last.status = 401
    /\ chats # <<>>

Orphaned(t) == HandedOut(t) /\ now <= t.exp /\ ~HasUser(t.sub)

\* C8 (as claimed): with such a token every protected route answers 404
\* and changes no table.
C8_OrphanTokenAlways404 ==
    [][\A t \in ClientTokens : Orphaned(t) =>
         \A r \in Slots : ProtectedStep(r, t) =>
            /\ last'.status = 404
            /\ UNCHANGED <<users, profiles, chats>>
      ]_vars

\* C8 (amended): with such a token the profile write, the coach and the
\* history list and clear answer 404, the profile read answers 200 with the
\* empty object, and none of them changes a table or starts a provider call.
C8_OrphanToken404ExceptRead ==
    [][\A t \in ClientTokens : Orphaned(t) =>
         \A r \in Slots :
            /\ ProtectedStep(r, t) =>
                  /\ UNCHANGED <<users, profiles, chats>>
                  /\ \A s \in Slots : req'[s].pc \in {"idle", "respond"}
                                         \/ req'[s] = req[s]
                  /\ last'.cur = t.sub
            /\ GetProfile(r, t) => last'.status = 200 /\ last'.body = EmptyBody
            /\ ( \/ ProfileWriteStep(r, t) \/ CoachStep(r, t)
                 \/ GetChatHistory(t) \/ ClearChatHistory(t) )
                  => last'.status = 404
      ]_vars

\* C8 witness: the coach answered 404 to a user that has been removed.
C8_Witness ==
    /\ last.route = "soccer_coach" /\ last.status = 404
    /\ ~HasUser(last.cur)

\* C9 (as claimed): while a coach request waits for the provider, the
\* service can take up any request not yet started and can answer any
\* request whose handler has finished.
C9_CoachBlocksNobody ==
    \A r \in Slots : req[r].pc = "awaiting" =>
        \A s \in Slots \ {r} :
            /\ req[s].pc = "idle" => CanStart(s)
            /\ req[s].pc = "respond" => CanSend(s)

\* C10: a clear answered 200 leaves no row of that user in chat_histories,
\* so the list of that user is empty, keeps every other row in place, and
\* leaves users and profiles as they were.
C10_ClearRemovesOnlyOwnRows ==
    [][\A t \in ClientTokens : (last'.status = 200 /\ ClearChatHistory(t)) =>
         LET uid == users[IdOf(last'.cur)].id
             kept == {j \in 1..Len(chats) : chats[j].user_id # uid} IN
         /\ \A i \in 1..Len(chats') : chats'[i].user_id # uid
         /\ SavedTurns(chats', uid) = <<>>
         /\ Len(chats') = Cardinality(kept)
         /\ \A other \in {chats[j].user_id : j \in kept} :
               SelectSeq(chats', LAMBDA row : row.user_id = other)
                  = SelectSeq(chats, LAMBDA row : row.user_id = other)
         /\ users' = users
         /\ profiles' = profiles
      ]_vars

\* C10 witness: a clear was answered while rows of another user remain.
C10_Witness ==
    /\ last.route = "clear_chat_history" /\ last.status = 200
    /\ chats # <<>>
    /\ profiles # <<>>
====
